---- MODULE Spec2Model ----
(***************************************************************************)
(* Model of gemelli.ctf.ctf_helper (src/gemelli/ctf.py).                   *)
(*                                                                         *)
(* ctf_helper is one synchronous function.  It is modelled as a sequence   *)
(* of steps, pc naming the position inside the function:                   *)
(*   Spec      lines  94-139  duplicate check, id matching, filtering,     *)
(*                            hand-over to the tensor builder              *)
(*   SpecMeta  lines  65-88   split of the sample metadata                 *)
(*   SpecOrd   lines 147-171  labeling, PC3 rule, ordination               *)
(*   SpecDist  lines 177-188  per-condition distance matrix                *)
(***************************************************************************)
EXTENDS Integers, Sequences, FiniteSets, TLC

\* ------------------------------------------------------------------ bounds
MaxCount       == 2   \* largest count in a table cell
MaxThreshold   == 2   \* largest min_sample_count / min_feature_count
MaxAuxColumns  == 2   \* auxiliary columns of the sample metadata
MaxRows        == 2   \* rows of the sample metadata
MaxComponents  == 2   \* largest n_components
MaxSubjects    == 2   \* rows of the subject loadings
MaxLoadedFeatures == 2  \* rows of the feature loadings
MaxAnnotations == 2   \* columns of the feature metadata
MaxConditions  == 2   \* state conditions of the tensor

SampleIds  == {1, 2, 3}   \* sample identifiers
FeatureIds == {1, 2}      \* feature identifiers

VARIABLES
    pc,                  \* position inside ctf_helper
    error,               \* exception that ended the call, or "none"
    \* lines 94-139
    table,               \* the caller's biom.Table (filtered in place)
    sample_metadata,     \* index of sample_metadata (a set of ids)
    feature_metadata,    \* [given, ids]: None, or the index of feature_metadata
    min_sample_count,    \* the thresholds, once line 126 has read them
    min_feature_count,
    tensor_input,        \* the dense matrix passed to tensor.construct
    orig,                \* the arguments as they were when ctf_helper was called
    \* lines 65-88
    metadata_columns,    \* columns of sample_metadata (a DataFrame or q2 Metadata)
    all_sample_metadata, \* columns of all_sample_metadata
    \* lines 147-171
    n_components,
    taxonomy,            \* the feature metadata passed to TF.label
    TF,                  \* the TensorFactorization object
    ordination,          \* the OrdinationResults
    \* lines 177-188
    conditions,          \* zip(tensor.conditions, TF.subject_distances, ...) still to do
    distances            \* distances[condition]

alignVars == <<table, sample_metadata, feature_metadata, min_sample_count,
               min_feature_count, tensor_input, orig>>
metaVars  == <<metadata_columns, all_sample_metadata>>
ordVars   == <<n_components, taxonomy, TF, ordination>>
distVars  == <<conditions, distances>>

vars == <<pc, error, alignVars, metaVars, ordVars, distVars>>

\* --------------------------------------------------------------- helpers
RECURSIVE SortedSeq(_)
\* the elements of a finite set of integers, ascending (python: sorted)
SortedSeq(S) ==
    IF S = {} THEN <<>>
    ELSE LET m == CHOOSE x \in S : \A y \in S : x <= y
         IN  <<m>> \o SortedSeq(S \ {m})

\* numpy / biom / pandas selection of the positions P of a sequence, order kept
Take(s, P) ==
    LET idx == SortedSeq(P) IN [k \in 1..Len(idx) |-> s[idx[k]]]

\* set(ids)
IdSet(s) == {s[i] : i \in 1..Len(s)}

RECURSIVE SumSeq(_)
SumSeq(s) == IF s = <<>> THEN 0 ELSE Head(s) + SumSeq(Tail(s))

SeqsUpTo(S, n) == UNION {[1..k -> S] : k \in 1..n}

\* sequences without repetition over S, at least one element
Arrangements(S) ==
    {s \in SeqsUpTo(S, Cardinality(S)) : Len(s) = Cardinality(IdSet(s))}

Raise(e) ==
    /\ pc' = "error"
    /\ error' = e

\* ------------------------------------------------------------ biom.Table
\* ids of both axes and the counts, data[f][s]
MkTable(s, f, d) == [sids |-> s, fids |-> f, data |-> d]

NoTable == MkTable(<<>>, <<>>, <<>>)

\* table.sum('sample')[j]
SampleSum(t, j) == SumSeq([i \in 1..Len(t.fids) |-> t.data[i][j]])

\* table.sum('observation')[i]
FeatureSum(t, i) == SumSeq(t.data[i])

\* table.filter(ids, axis='sample', inplace=True)
FilterSamples(t, ids) ==
    LET P == {j \in 1..Len(t.sids) : t.sids[j] \in ids}
    IN  MkTable(Take(t.sids, P), t.fids,
                [i \in 1..Len(t.fids) |-> Take(t.data[i], P)])

\* table.filter(ids, axis='observation', inplace=True)
FilterFeatures(t, ids) ==
    LET P == {i \in 1..Len(t.fids) : t.fids[i] \in ids}
    IN  MkTable(t.sids, Take(t.fids, P), Take(t.data, P))

\* table.ids('sample')[table.sum('sample') >= min_sum]
SamplesAtLeast(t, min_sum) ==
    {t.sids[j] : j \in {k \in 1..Len(t.sids) : SampleSum(t, k) >= min_sum}}

\* table.ids('observation')[table.sum('observation') >= min_sum]
FeaturesAtLeast(t, min_sum) ==
    {t.fids[i] : i \in {k \in 1..Len(t.fids) : FeatureSum(t, k) >= min_sum}}

\* the loop of lines 124-129: samples first, then features of the result
CountFilter(t, msc, mfc) ==
    LET t1 == FilterSamples(t, SamplesAtLeast(t, msc))
    IN  FilterFeatures(t1, FeaturesAtLeast(t1, mfc))

\* len(ids) != len(set(ids))
HasDuplicates(s) == Len(s) # Cardinality(IdSet(s))

\* a check that looks at the sample ids only
DuplicateIds_SamplesOnly(t) == HasDuplicates(t.sids)

\* lines 97-100
DuplicateIds(t) == HasDuplicates(t.sids) \/ HasDuplicates(t.fids)

NoFMeta == [given |-> FALSE, ids |-> {}]

\* lines 104-107: feature metadata given and no feature id shared
NoFeaturesLeft(t, fm) == fm.given /\ IdSet(t.fids) \cap fm.ids = {}

\* a check of the metadata alone instead of the shared ids
NoSamplesLeft_MetadataOnly(t, md) == md = {}

\* lines 113-114: no sample id shared
NoSamplesLeft(t, md) == IdSet(t.sids) \cap md = {}

\* the table filtered on the sample axis only
FilterToIntersection_SamplesOnly(t, md, fm) ==
    FilterSamples(t, IdSet(t.sids) \cap md)

\* lines 118-120
FilterToIntersection(t, md, fm) ==
    LET t1 == IF fm.given
              THEN FilterFeatures(t, IdSet(t.fids) \cap fm.ids)
              ELSE t
    IN  FilterSamples(t1, IdSet(t.sids) \cap md)

\* lines 94-134 as a function of the arguments: the table handed on, or the error
AlignAndFilter(t, md, fm, msc, mfc) ==
    IF DuplicateIds(t) \/ NoFeaturesLeft(t, fm) \/ NoSamplesLeft(t, md)
    THEN [error |-> "ValueError", table |-> NoTable]
    ELSE [error |-> "none",
          table |-> CountFilter(FilterToIntersection(t, md, fm), msc, mfc)]

FeatureMetadataInputs ==
    {NoFMeta} \cup {[given |-> TRUE, ids |-> I] : I \in SUBSET FeatureIds \ {{}}}

\* the id lists of an input table: repeated ids allowed, and short enough
\* that the metadata can name an id the table lacks
SampleIdLists  == SeqsUpTo(SampleIds, Cardinality(SampleIds) - 1)
FeatureIdLists == SeqsUpTo(FeatureIds, Cardinality(FeatureIds))

\* ------------------------------------------------- values of idle variables
AlignIdle ==
    /\ table = NoTable
    /\ sample_metadata = {}
    /\ feature_metadata = NoFMeta
    /\ min_sample_count = 0
    /\ min_feature_count = 0
    /\ tensor_input = NoTable
    /\ orig = [table |-> NoTable, sample_metadata |-> {},
               feature_metadata |-> NoFMeta]

MetaIdle ==
    /\ metadata_columns = [is_dataframe |-> FALSE, given |-> <<>>, columns |-> <<>>]
    /\ all_sample_metadata = <<>>

NoFrame == [columns |-> <<>>, index |-> <<>>, rows |-> <<>>]

NoSeries == [index |-> <<>>, values |-> <<>>]

NoTaxonomy == [given |-> FALSE, columns |-> <<>>]

NoOrdination == [eigvals |-> NoSeries, samples |-> NoFrame, features |-> NoFrame,
                 proportion_explained |-> NoSeries]

OrdIdle ==
    /\ n_components = 0
    /\ taxonomy = NoTaxonomy
    /\ TF = [loadings |-> <<>>, subjects |-> NoFrame, features |-> NoFrame,
             eigvals |-> NoSeries, proportion_explained |-> NoSeries]
    /\ ordination = NoOrdination

DistIdle ==
    /\ conditions = <<>>
    /\ distances = <<>>

\* ------------------------------------------------- ctf_helper, lines 94-139
Init ==
    \E s \in SampleIdLists, f \in FeatureIdLists :
    \E d \in [1..Len(f) -> [1..Len(s) -> 0..MaxCount]] :
    \E md \in SUBSET SampleIds \ {{}}, fm \in FeatureMetadataInputs :
        /\ pc = "check_duplicates"
        /\ error = "none"
        /\ table = MkTable(s, f, d)
        /\ sample_metadata = md
        /\ feature_metadata = fm
        /\ min_sample_count = 0
        /\ min_feature_count = 0
        /\ tensor_input = NoTable
        /\ orig = [table |-> MkTable(s, f, d), sample_metadata |-> md,
                   feature_metadata |-> fm]
        /\ MetaIdle /\ OrdIdle /\ DistIdle

\* lines 95-100
CheckDuplicates ==
    /\ pc = "check_duplicates"
    /\ IF DuplicateIds(table)
       THEN Raise("ValueError")
       ELSE pc' = "match" /\ error' = error
    /\ UNCHANGED <<alignVars, metaVars, ordVars, distVars>>

\* lines 101-121
MatchIds ==
    /\ pc = "match"
    /\ IF NoFeaturesLeft(table, feature_metadata)
       THEN Raise("ValueError")
            /\ UNCHANGED <<table, sample_metadata, feature_metadata>>
       ELSE IF NoSamplesLeft(table, sample_metadata)
       THEN /\ Raise("ValueError")
            /\ feature_metadata' =
                   [feature_metadata EXCEPT !.ids = @ \cap IdSet(table.fids)]
            /\ UNCHANGED <<table, sample_metadata>>
       ELSE /\ pc' = "count_filter"
            /\ error' = error
            /\ feature_metadata' =
                   [feature_metadata EXCEPT !.ids = @ \cap IdSet(table.fids)]
            /\ table' = FilterToIntersection(table, sample_metadata, feature_metadata)
            /\ sample_metadata' = IdSet(table.sids) \cap sample_metadata
    /\ UNCHANGED <<min_sample_count, min_feature_count, tensor_input, orig>>
    /\ UNCHANGED <<metaVars, ordVars, distVars>>

\* lines 123-139: count filtering with the thresholds of the call (read here
\* for the first time), then the dense matrix is handed to tensor.construct
FilterCounts ==
    /\ pc = "count_filter"
    /\ \E msc \in 0..MaxThreshold, mfc \in 0..MaxThreshold :
        /\ min_sample_count' = msc
        /\ min_feature_count' = mfc
        /\ table' = CountFilter(table, msc, mfc)
    /\ tensor_input' = table'
    /\ pc' = "fit"
    /\ UNCHANGED <<error, sample_metadata, feature_metadata, orig>>
    /\ UNCHANGED <<metaVars, ordVars, distVars>>

Next ==
    \/ CheckDuplicates
    \/ MatchIds
    \/ FilterCounts

Spec == Init /\ [][Next]_vars


\* C1: when the table and the sample metadata share no sample id, or feature
\* metadata is given and shares no feature id with the table, ctf_helper ends
\* in a ValueError and never hands anything on (no tensor, no result).
C1_EmptyIntersectionRaises ==
    (\/ IdSet(orig.table.sids) \cap orig.sample_metadata = {}
     \/ /\ orig.feature_metadata.given
        /\ IdSet(orig.table.fids) \cap orig.feature_metadata.ids = {})
    => /\ pc \in {"check_duplicates", "match", "error"}
       /\ pc = "error" => error = "ValueError"
       /\ tensor_input = NoTable

\* a run that passed the duplicate check, was given no feature metadata and
\* was stopped by an empty sample intersection
C1_Witness ==
    /\ pc = "error"
    /\ error = "ValueError"
    /\ Len(orig.table.sids) = Cardinality(IdSet(orig.table.sids))
    /\ Len(orig.table.fids) = Cardinality(IdSet(orig.table.fids))
    /\ IdSet(orig.table.sids) \cap orig.sample_metadata = {}
    /\ ~ orig.feature_metadata.given

\* C3: the alignment and filtering step applied to its own output, with the
\* same metadata and thresholds, gives the same table (already aligned,
\* duplicate-free input).
C3_AlignAndFilterIdempotent ==
    (/\ pc = "fit"
     /\ IdSet(orig.table.sids) = orig.sample_metadata
     /\ orig.feature_metadata.given
            => IdSet(orig.table.fids) = orig.feature_metadata.ids)
    => AlignAndFilter(tensor_input, orig.sample_metadata, orig.feature_metadata,
                      min_sample_count, min_feature_count)
         = [error |-> "none", table |-> tensor_input]

\* C4: a table with a repeated sample or feature id makes ctf_helper fail
\* with a ValueError before the table is filtered and before the tensor is
\* built: the caller's table is as it was.
C4_DuplicatesFailFast ==
    (\/ Len(orig.table.sids) # Cardinality(IdSet(orig.table.sids))
     \/ Len(orig.table.fids) # Cardinality(IdSet(orig.table.fids)))
    => /\ pc \in {"check_duplicates", "error"}
       /\ pc = "error" => error = "ValueError"
       /\ table = orig.table
       /\ tensor_input = NoTable

\* a table with a repeated feature id only, whose ids all have metadata
C4_Witness ==
    /\ pc = "error"
    /\ Len(orig.table.fids) # Cardinality(IdSet(orig.table.fids))
    /\ Len(orig.table.sids) = Cardinality(IdSet(orig.table.sids))
    /\ IdSet(orig.table.sids) \subseteq orig.sample_metadata
    /\ table = orig.table

\* C5: the matrix handed to the tensor builder has at least one sample and
\* at least one feature.
C5_TensorInputNotEmpty ==
    pc = "fit" => /\ Len(tensor_input.sids) >= 1
                  /\ Len(tensor_input.fids) >= 1

\* C8: every sample id of the matrix handed to the tensor builder has a row
\* in the sample metadata passed with it, every feature id has a row in the
\* feature metadata kept for the labeling step, and no id that was only in
\* the table or only in the metadata is left in the matrix.
C8_TensorInputAligned ==
    pc = "fit" =>
        /\ IdSet(tensor_input.sids) \subseteq sample_metadata
        /\ IdSet(tensor_input.sids)
               \subseteq IdSet(orig.table.sids) \cap orig.sample_metadata
        /\ feature_metadata.given =>
               /\ IdSet(tensor_input.fids) \subseteq feature_metadata.ids
               /\ IdSet(tensor_input.fids)
                      \subseteq IdSet(orig.table.fids) \cap orig.feature_metadata.ids

\* a run in which the alignment removed a sample and a feature that had no
\* metadata, and the metadata named a sample the table lacks
C8_Witness ==
    /\ pc = "fit"
    /\ Len(tensor_input.sids) >= 1
    /\ Len(tensor_input.fids) >= 1
    /\ feature_metadata.given
    /\ IdSet(orig.table.sids) \ orig.sample_metadata # {}
    /\ orig.sample_metadata \ IdSet(orig.table.sids) # {}
    /\ IdSet(orig.table.fids) \ orig.feature_metadata.ids # {}

\* C9: in the matrix handed to the tensor builder every sample totals at
\* least min_sample_count over the retained features and every feature at
\* least min_feature_count over the retained samples.
C9_TotalsAtLeastThresholds ==
    pc = "fit" =>
        /\ \A j \in 1..Len(tensor_input.sids) :
               SampleSum(tensor_input, j) >= min_sample_count
        /\ \A i \in 1..Len(tensor_input.fids) :
               FeatureSum(tensor_input, i) >= min_feature_count

\* ------------------------------------------------- ctf_helper, lines 65-88
\* A DataFrame is the sequence of its columns; a column has a name, a dtype
\* and one value per row.
Column(name, dtype, values) == [name |-> name, dtype |-> dtype, values |-> values]

\* state_columns + [individual_id_column]
keep_cols == <<"state", "subject">>

AuxNames == <<"aux1", "aux2", "aux3", "aux4">>

\* cell values, written as python writes them: the booleans <True>, <False>
\* are not the strings 'True', 'False'
ValuesOf(dtype) ==
    CASE dtype = "bool"    -> {"<True>", "<False>"}
      [] dtype = "object"  -> {"True", "False", "other"}
      [] dtype = "int64"   -> {"0", "1"}
      [] dtype = "float64" -> {"0.0", "1.0"}

\* the dtypes a raw DataFrame can hold, and those of Metadata.to_dataframe()
DataFrameDtypes == {"bool", "object", "int64"}
MetadataDtypes  == {"object", "float64"}

\* DataFrame.drop(names, axis=1)
DropColumns(cols, names) ==
    SelectSeq(cols, LAMBDA c : c.name \notin IdSet(names))

\* DataFrame[names]
PickColumns(cols, names) ==
    [k \in 1..Len(names) |->
        cols[CHOOSE i \in 1..Len(cols) : cols[i].name = names[k]]]

\* DataFrame.eq(s).any(axis=0), for one column
AnyEq(c, str) == \E i \in 1..Len(c.values) : c.values[i] = str

\* lines 72-73: ~ (dtypes == 'bool')
NotBoolDtype(c) == c.dtype # "bool"

\* lines 76-78: ~ (eq('True').any() != eq('False').any())
NotBoolStrings(c) == ~ (AnyEq(c, "True") # AnyEq(c, "False"))

InitMeta ==
    \E raw \in BOOLEAN, n \in 1..MaxRows, k \in 0..MaxAuxColumns :
    \E dt \in [1..k -> IF raw THEN DataFrameDtypes ELSE MetadataDtypes] :
    \E aux \in [1..k -> UNION {[1..n -> ValuesOf(d)] : d \in DataFrameDtypes \cup MetadataDtypes}] :
        /\ \A i \in 1..k : aux[i] \in [1..n -> ValuesOf(dt[i])]
        /\ LET cols == <<Column("state", "object", [r \in 1..n |-> "t"])>>
                       \o [i \in 1..k |-> Column(AuxNames[i], dt[i], aux[i])]
                       \o <<Column("subject", "object", [r \in 1..n |-> "s"])>>
           IN  metadata_columns =
                   [is_dataframe |-> raw, given |-> cols, columns |-> cols]
        /\ all_sample_metadata = <<>>
        /\ pc = "split"
        /\ error = "none"
        /\ AlignIdle /\ OrdIdle /\ DistIdle

\* lines 66-69, and 85-88 for q2 Metadata
SplitMetadata ==
    /\ pc = "split"
    /\ all_sample_metadata' = DropColumns(metadata_columns.columns, keep_cols)
    /\ metadata_columns' =
           [metadata_columns EXCEPT
                !.columns = PickColumns(metadata_columns.columns, keep_cols)]
    /\ pc' = IF metadata_columns.is_dataframe THEN "drop_bool" ELSE "metadata_done"
    /\ UNCHANGED <<error, alignVars, ordVars, distVars>>

\* lines 72-73
DropBoolDtype ==
    /\ pc = "drop_bool"
    /\ all_sample_metadata' = SelectSeq(all_sample_metadata, NotBoolDtype)
    /\ pc' = "drop_bool_strings"
    /\ UNCHANGED <<error, metadata_columns, alignVars, ordVars, distVars>>

\* lines 76-78
DropBoolStrings ==
    /\ pc = "drop_bool_strings"
    /\ all_sample_metadata' = SelectSeq(all_sample_metadata, NotBoolStrings)
    /\ pc' = "metadata_done"
    /\ UNCHANGED <<error, metadata_columns, alignVars, ordVars, distVars>>

NextMeta ==
    \/ SplitMetadata
    \/ DropBoolDtype
    \/ DropBoolStrings

SpecMeta == InitMeta /\ [][NextMeta]_vars

\* C10: for a raw sample metadata table the auxiliary metadata keeps no
\* boolean column (dtype bool, or strings 'True' / 'False', one of them or
\* both), keeps every other auxiliary column, and never holds the subject or
\* state column.
C10_NoBooleanColumnKept ==
    (pc = "metadata_done" /\ metadata_columns.is_dataframe) =>
        LET boolean(c) ==
                \/ c.dtype = "bool"
                \/ /\ c.dtype = "object"
                   /\ \E i \in 1..Len(c.values) : c.values[i] \in {"True", "False"}
            given == metadata_columns.given
            aux   == {i \in 1..Len(given) : given[i].name \notin {"state", "subject"}}
        IN  /\ \A i \in 1..Len(all_sample_metadata) :
                   ~ boolean(all_sample_metadata[i])
            /\ \A i \in aux :
                   ~ boolean(given[i])
                       => \E j \in 1..Len(all_sample_metadata) :
                              all_sample_metadata[j] = given[i]
            /\ \A j \in 1..Len(all_sample_metadata) :
                   all_sample_metadata[j].name \notin {"state", "subject"}

\* ------------------------------------------------ ctf_helper, lines 147-171
\* A DataFrame of loadings has column names, an index and rows[i][j], the
\* value of row i in column j.  A name is the sequence of its characters.
NaN == 0 - 1

Digits == <<"1", "2", "3", "4", "5">>

\* "PC%i" % i
PCName(i) == <<"P", "C", Digits[i]>>

PCNames(k) == [i \in 1..k |-> PCName(i)]

\* python: sub in name
Contains(sub, name) ==
    \E k \in 0..(Len(name) - Len(sub)) :
        \A m \in 1..Len(sub) : name[k + m] = sub[m]

\* names of feature metadata columns
AnnotationNames ==
    { <<"T", "a", "x", "o", "n">>,
      <<"q", "P", "C", "R">>,
      <<"p", "c">> }

\* the values the engine computed: subject loadings (mode 1), feature
\* loadings (mode 2), eigenvalues (3), proportion explained (4); the
\* numbers are tokens, one per entry
Computed(mode, i, j) == 1000 * mode + 10 * i + j

\* the value of annotation column j for feature i
Annotation(i, j) == 9000 + 10 * i + j

Position(names, name) == CHOOSE i \in 1..Len(names) : names[i] = name

\* frame[name] = value for every row
SetColumn(frame, name, value) ==
    IF name \in IdSet(frame.columns)
    THEN [frame EXCEPT !.rows =
             [i \in 1..Len(frame.rows) |->
                 [frame.rows[i] EXCEPT ![Position(frame.columns, name)] = value]]]
    ELSE [frame EXCEPT !.columns = Append(@, name),
                       !.rows = [i \in 1..Len(frame.rows) |->
                                    Append(frame.rows[i], value)]]

\* series.loc[name, :] = value
SetEntry(series, name, value) ==
    IF name \in IdSet(series.index)
    THEN [series EXCEPT !.values[Position(series.index, name)] = value]
    ELSE [index |-> Append(series.index, name),
          values |-> Append(series.values, value)]

\* frame[names]
SelectColumns(frame, names) ==
    [frame EXCEPT !.columns = names,
                  !.rows = [i \in 1..Len(frame.rows) |->
                               [k \in 1..Len(names) |->
                                   frame.rows[i][Position(frame.columns, names[k])]]]]

\* frame.dropna(axis=0)
DropNa(frame) ==
    LET P == {i \in 1..Len(frame.rows) :
                 \A j \in 1..Len(frame.rows[i]) : frame.rows[i][j] # NaN}
    IN  [frame EXCEPT !.index = Take(frame.index, P),
                      !.rows = Take(frame.rows, P)]

\* TF.label(tensor, taxonomy=feature_metadata): ids and PC names on the
\* loadings, the annotation columns next to the feature loadings
Label(tf, k, tax) ==
    LET S == tf.loadings[1]
        F == tf.loadings[2]
    IN  [tf EXCEPT
            !.subjects = [columns |-> PCNames(k),
                          index   |-> [i \in 1..Len(S) |-> i],
                          rows    |-> S],
            !.features = [columns |-> PCNames(k) \o tax.columns,
                          index   |-> [i \in 1..Len(F) |-> i],
                          rows    |-> [i \in 1..Len(F) |->
                                          F[i] \o [j \in 1..Len(tax.columns) |->
                                                      Annotation(i, j)]]],
            !.eigvals = [index |-> PCNames(k),
                         values |-> [j \in 1..k |-> Computed(3, 0, j)]],
            !.proportion_explained =
                        [index |-> PCNames(k),
                         values |-> [j \in 1..k |-> Computed(4, 0, j)]]]

\* the zero axis added to the loadings but not to the eigenvalues
AddPC3_LoadingsOnly(tf, k) ==
    IF k = 2
    THEN [tf EXCEPT
            !.subjects = SetColumn(@, PCName(3), 0),
            !.features = SetColumn(@, PCName(3), 0),
            !.proportion_explained = SetEntry(@, PCName(3), 0)]
    ELSE tf

\* lines 154-158
AddPC3(tf, k) ==
    IF k = 2
    THEN [tf EXCEPT
            !.subjects = SetColumn(@, PCName(3), 0),
            !.features = SetColumn(@, PCName(3), 0),
            !.proportion_explained = SetEntry(@, PCName(3), 0),
            !.eigvals = SetEntry(@, PCName(3), 0)]
    ELSE tf

\* line 164
keep_PC(tf) == SelectSeq(tf.features.columns, LAMBDA col : Contains(<<"P", "C">>, col))

TaxonomyInputs ==
    {NoTaxonomy} \cup
    {[given |-> TRUE, columns |-> c] :
        c \in {a \in SeqsUpTo(AnnotationNames, MaxAnnotations) :
                  Len(a) = Cardinality(IdSet(a))}}

InitOrd ==
    \E k \in 1..MaxComponents, ns \in 1..MaxSubjects, nf \in 1..MaxLoadedFeatures :
    \E snan \in [1..ns -> 0..k], fnan \in [1..nf -> 0..k], tax \in TaxonomyInputs :
        /\ n_components = k
        /\ taxonomy = tax
        /\ TF = [loadings |->
                    << [i \in 1..ns |-> [j \in 1..k |->
                           IF snan[i] = j THEN NaN ELSE Computed(1, i, j)]],
                       [i \in 1..nf |-> [j \in 1..k |->
                           IF fnan[i] = j THEN NaN ELSE Computed(2, i, j)]] >>,
                 subjects |-> NoFrame, features |-> NoFrame,
                 eigvals |-> NoSeries, proportion_explained |-> NoSeries]
        /\ ordination = NoOrdination
        /\ pc = "label"
        /\ error = "none"
        /\ AlignIdle /\ MetaIdle /\ DistIdle

\* line 148
LabelLoadings ==
    /\ pc = "label"
    /\ TF' = Label(TF, n_components, taxonomy)
    /\ pc' = "add_pc3"
    /\ UNCHANGED <<error, n_components, taxonomy, ordination,
                   alignVars, metaVars, distVars>>

\* lines 154-158
AddZeroAxis ==
    /\ pc = "add_pc3"
    /\ TF' = AddPC3(TF, n_components)
    /\ pc' = "ordination"
    /\ UNCHANGED <<error, n_components, taxonomy, ordination,
                   alignVars, metaVars, distVars>>

\* lines 161-171
BuildOrdination ==
    /\ pc = "ordination"
    /\ IF IdSet(keep_PC(TF)) \subseteq IdSet(TF.subjects.columns)
       THEN /\ ordination' =
                   [eigvals  |-> TF.eigvals,
                    samples  |-> DropNa(SelectColumns(TF.subjects, keep_PC(TF))),
                    features |-> DropNa(SelectColumns(TF.features, keep_PC(TF))),
                    proportion_explained |-> TF.proportion_explained]
            /\ pc' = "ordination_done"
            /\ error' = error
       ELSE /\ Raise("KeyError")
            /\ ordination' = ordination
    /\ UNCHANGED <<n_components, taxonomy, TF, alignVars, metaVars, distVars>>

NextOrd ==
    \/ LabelLoadings
    \/ AddZeroAxis
    \/ BuildOrdination

SpecOrd == InitOrd /\ [][NextOrd]_vars

\* the loadings of one table of the ordination are those the engine
\* computed for the same row and axis
SameAsComputed(frame, mode, axes) ==
    \A i \in 1..Len(frame.index) : \A j \in 1..axes :
        frame.rows[i][j] = Computed(mode, frame.index[i], j)

\* C2: with n_components = 2 the ordination has the axes PC1, PC2, PC3 in
\* the subject loadings, the feature loadings, the eigenvalues and the
\* proportion explained; every PC3 entry is 0 and the PC1, PC2 values are
\* the computed ones.
C2_ThreeAxesForTwoComponents ==
    (pc = "ordination_done" /\ n_components = 2) =>
        /\ ordination.samples.columns = PCNames(3)
        /\ ordination.features.columns = PCNames(3)
        /\ ordination.eigvals.index = PCNames(3)
        /\ ordination.proportion_explained.index = PCNames(3)
        /\ \A i \in 1..Len(ordination.samples.rows) :
               ordination.samples.rows[i][3] = 0
        /\ \A i \in 1..Len(ordination.features.rows) :
               ordination.features.rows[i][3] = 0
        /\ ordination.eigvals.values[3] = 0
        /\ ordination.proportion_explained.values[3] = 0
        /\ SameAsComputed(ordination.samples, 1, 2)
        /\ SameAsComputed(ordination.features, 2, 2)
        /\ \A j \in 1..2 :
               /\ ordination.eigvals.values[j] = Computed(3, 0, j)
               /\ ordination.proportion_explained.values[j] = Computed(4, 0, j)

\* an ordination of two components with annotated features and loadings left
C2_Witness ==
    /\ pc = "ordination_done"
    /\ n_components = 2
    /\ taxonomy.given
    /\ Len(ordination.samples.index) >= 1
    /\ Len(ordination.features.index) >= 1

\* C7: whatever the names of the annotation columns, the ordination is built
\* and its subject and feature loadings have exactly the columns PC1..PCk
\* (and PC3 for two components).
C7_OnlyPCColumns ==
    pc \in {"ordination_done", "error"} =>
        LET axes == IF n_components = 2 THEN 3 ELSE n_components
        IN  /\ pc = "ordination_done"
            /\ ordination.samples.columns = PCNames(axes)
            /\ ordination.features.columns = PCNames(axes)

\* ------------------------------------------------ ctf_helper, lines 177-188
\* The engine's distance between two ids of a condition; the numbers are
\* tokens, one per unordered pair.
EngineDistance(condition, a, b) ==
    IF a = b THEN 0
    ELSE 100 * condition + 10 * (IF a < b THEN a ELSE b) + (IF a < b THEN b ELSE a)

\* TF.subject_distances of a condition whose trajectory index is ids
DistanceArray(condition, ids) ==
    [i \in 1..Len(ids) |-> [j \in 1..Len(ids) |->
        EngineDistance(condition, ids[i], ids[j])]]

\* line 183: dict((ind, ind_i) for ind_i, ind in enumerate(ids))
ind_dict(ids) ==
    [ind \in IdSet(ids) |->
        CHOOSE i \in 1..Len(ids) :
            ids[i] = ind /\ \A k \in 1..Len(ids) : ids[k] = ind => k <= i]

\* lines 184-185
SortedIndices(ids, metadata_index) ==
    LET inter == IdSet(ids) \cap metadata_index
    IN  SortedSeq({ind_dict(ids)[ind] : ind \in inter})

\* the rows selected, the columns cut to the same number: dist[indices, :len]
Slice_RowsOnly(dist, indices) ==
    [k \in 1..Len(indices) |-> [l \in 1..Len(indices) |->
        dist[indices[k]][l]]]

\* line 186: dist[indices, :][:, indices]
Slice(dist, indices) ==
    [k \in 1..Len(indices) |-> [l \in 1..Len(indices) |->
        dist[indices[k]][indices[l]]]]

\* lines 182-188: DistanceMatrix(dist[indices, :][:, indices], ids=ids[indices])
MatchedDistances(c, metadata_index) ==
    LET indices == SortedIndices(c.ids, metadata_index)
    IN  [condition |-> c.condition,
         ids  |-> [k \in 1..Len(indices) |-> c.ids[indices[k]]],
         data |-> Slice(c.dist, indices)]

\* The trajectories come from samples of the aligned table: each index has no
\* repeated id and shares an id with the retained sample metadata.
InitDist ==
    \E n \in 1..MaxConditions, md \in SUBSET SampleIds \ {{}} :
    \E idx \in [1..n -> {a \in Arrangements(SampleIds) : IdSet(a) \cap md # {}}] :
        /\ sample_metadata = md
        /\ conditions = [c \in 1..n |->
                            [condition |-> c, ids |-> idx[c],
                             dist |-> DistanceArray(c, idx[c])]]
        /\ distances = <<>>
        /\ pc = "distances"
        /\ error = "none"
        /\ table = NoTable
        /\ feature_metadata = NoFMeta
        /\ min_sample_count = 0
        /\ min_feature_count = 0
        /\ tensor_input = NoTable
        /\ orig = [table |-> NoTable, sample_metadata |-> {},
                   feature_metadata |-> NoFMeta]
        /\ MetaIdle /\ OrdIdle

\* one turn of the loop of line 177, lines 182-188
MatchDistances ==
    /\ pc = "distances"
    /\ Len(distances) < Len(conditions)
    /\ distances' = Append(distances,
                           MatchedDistances(conditions[Len(distances) + 1],
                                            sample_metadata))
    /\ UNCHANGED <<pc, error, conditions, alignVars, metaVars, ordVars>>

\* line 203
ReturnDistances ==
    /\ pc = "distances"
    /\ Len(distances) = Len(conditions)
    /\ pc' = "done"
    /\ UNCHANGED <<error, distVars, alignVars, metaVars, ordVars>>

NextDist ==
    \/ MatchDistances
    \/ ReturnDistances

SpecDist == InitDist /\ [][NextDist]_vars

\* the ids of a returned matrix are those in both the trajectory index and
\* the retained sample metadata, each once, and every entry is the engine's
\* distance of its pair of ids
SameIdsAndDistances(c) ==
    LET d == distances[c]
    IN  /\ IdSet(d.ids) = IdSet(conditions[c].ids) \cap sample_metadata
        /\ Len(d.ids) = Cardinality(IdSet(d.ids))
        /\ Len(d.data) = Len(d.ids)
        /\ \A k \in 1..Len(d.ids) :
               /\ Len(d.data[k]) = Len(d.ids)
               /\ \A l \in 1..Len(d.ids) :
                      d.data[k][l] = EngineDistance(c, d.ids[k], d.ids[l])

\* C6 as stated: the ids of every returned distance matrix are listed in
\* ascending id order, whatever the order of the trajectory index.
C6_AscendingIdOrder ==
    \A c \in 1..Len(distances) :
        /\ SameIdsAndDistances(c)
        /\ distances[c].ids =
               SortedSeq(IdSet(conditions[c].ids) \cap sample_metadata)

\* C6 amended: the ids of every returned distance matrix are listed in the
\* order in which they occur in the trajectory index; the matrix holds
\* exactly the ids in both the trajectory index and the retained sample
\* metadata, each once, with the engine's distance for each pair.
C6_TrajectoryOrder ==
    \A c \in 1..Len(distances) :
        /\ SameIdsAndDistances(c)
        /\ distances[c].ids =
               SelectSeq(conditions[c].ids, LAMBDA ind : ind \in sample_metadata)

\* a matrix from a trajectory index that is not ascending and has an id
\* without retained metadata before one with
C6_Witness ==
    /\ pc = "done"
    /\ \E c \in 1..Len(distances) :
           /\ Len(distances[c].ids) >= 2
           /\ distances[c].ids[1] > distances[c].ids[2]
           /\ conditions[c].ids[1] \notin sample_metadata

====
